---- MODULE Spec2Model ----
(***************************************************************************)
(* Model of smart_ptr::linked_ptr (src/linked_ptr.h): a shared-ownership   *)
(* pointer whose owners are the nodes of an intrusive circular doubly      *)
(* linked list.                                                            *)
(*                                                                         *)
(* Handles live in an arena of storage slots 1..NumHandles; a slot's index *)
(* is the address of the handle stored there, so a node's "this" is its    *)
(* own index.  A destroyed handle's slot keeps whatever bytes were left in *)
(* it and may be handed out again by a later construction: an access       *)
(* through a stale neighbour pointer therefore lands either in the dead    *)
(* storage or in the handle that now occupies it, whichever the program's  *)
(* later constructions produce.                                            *)
(***************************************************************************)
EXTENDS Integers, FiniteSets, Sequences, TLC

\* ---------------------------------------------------------------- bounds
NumHandles == 4
NumRes == 2
MaxSteps == 6
NumDeepHandles == 3
DeepSteps == 8
RingSteps == 8
BaseSteps == 8
CmpSteps == 5

Handles == 1..NumHandles
Res == 1..NumRes
Null == 0

VARIABLES
    live,      \* set of slots that currently hold a constructed handle
    used,      \* set of slots that have held a handle at some time
    ptr,       \* ptr[h]   : linked_ptr::_ptr  (Null or a resource)
    left,      \* left[h]  : linked_ptr_base::_left
    right,     \* right[h] : linked_ptr_base::_right
    deleted,   \* deleted[r]: how many times `delete` ran on resource r
    handed,    \* resources already handed to a raw constructor / reset(p)
    group,     \* ghost: group[h] = abstract ownership group of h
    last,      \* ghost: the operation that produced this state
    steps      \* ghost: number of operations performed so far

vars == <<live, used, ptr, left, right, deleted, handed, group, last, steps>>

\* ------------------------------------------------------- linked_ptr_base
\* Link state is passed around as a record lk = [l |-> left, r |-> right].

\* linked_ptr_base::linked_ptr_base()
BaseInit(lk, n) ==
    [l |-> [lk.l EXCEPT ![n] = n], r |-> [lk.r EXCEPT ![n] = n]]

\* linked_ptr_base::unique()
BaseUnique(lk, n) == lk.l[n] = n /\ lk.r[n] = n

\* insert_after that splices the node in before rhs instead of after it
InsertBefore(lk, n, rhs) ==
    LET l1 == [lk.l EXCEPT ![n] = lk.l[rhs]]
        r2 == [lk.r EXCEPT ![l1[n]] = n]
        r3 == [r2 EXCEPT ![n] = rhs]
        l4 == [l1 EXCEPT ![rhs] = n]
    IN  [l |-> l4, r |-> r3]

\* linked_ptr_base::insert_after(rhs); n is `this`
InsertAfter(lk, n, rhs) ==
    LET r1 == [lk.r EXCEPT ![n] = lk.r[rhs]]           \* _right = rhs._right
        l2 == [lk.l EXCEPT ![r1[n]] = n]               \* _right->_left = this
        l3 == [l2 EXCEPT ![n] = rhs]                   \* _left = &rhs
        r4 == [r1 EXCEPT ![rhs] = n]                   \* rhs._right = this
    IN  [l |-> l3, r |-> r4]

\* erase that reconnects the neighbours but leaves the node's own links
EraseKeepsOwnLinks(lk, n) ==
    LET l1 == [lk.l EXCEPT ![lk.r[n]] = lk.l[n]]
        r2 == [lk.r EXCEPT ![l1[n]] = lk.r[n]]
    IN  [l |-> l1, r |-> r2]

\* erase without its second store, `_left->_right = _right`
EraseOneSided(lk, n) ==
    LET l1 == [lk.l EXCEPT ![lk.r[n]] = lk.l[n]]
    IN  [l |-> [l1 EXCEPT ![n] = n],
         r |-> [lk.r EXCEPT ![n] = n]]

\* linked_ptr_base::erase(); n is `this`
Erase(lk, n) ==
    LET l1 == [lk.l EXCEPT ![lk.r[n]] = lk.l[n]]       \* _right->_left = _left
        r2 == [lk.r EXCEPT ![l1[n]] = lk.r[n]]         \* _left->_right = _right
    IN  [l |-> [l1 EXCEPT ![n] = n],                   \* _right = _left = this
         r |-> [r2 EXCEPT ![n] = n]]

\* `_right->_left = _left->_right = this` for node n.  The inner assignment
\* is the right operand of the outer one; innerFirst tells whether its store
\* happens before `_right` of the outer left operand is read (guaranteed
\* from C++17 on, unspecified before).
Repoint(lk, n, innerFirst) ==
    LET r1  == [lk.r EXCEPT ![lk.l[n]] = n]            \* _left->_right = this
        tgt == IF innerFirst THEN r1[n] ELSE lk.r[n]
    IN  [l |-> [lk.l EXCEPT ![tgt] = n],               \* _right->_left = this
         r |-> r1]

\* linked_ptr_base::swap(other); a is `this`, b is `other`
BaseSwap(lk, a, b, innerFirst) ==
    IF BaseUnique(lk, a) /\ BaseUnique(lk, b) THEN lk
    ELSE
        LET s  == [l |-> [lk.l EXCEPT ![a] = lk.l[b], ![b] = lk.l[a]],
                   r |-> [lk.r EXCEPT ![a] = lk.r[b], ![b] = lk.r[a]]]
            s1 == IF ~BaseUnique(s, a) THEN Repoint(s, a, innerFirst) ELSE s
            s2 == IF ~BaseUnique(s1, b) THEN Repoint(s1, b, innerFirst) ELSE s1
        IN  s2

\* ------------------------------------------------------------ linked_ptr
Links == [l |-> left, r |-> right]

\* linked_ptr::get()
get(h) == ptr[h]

\* linked_ptr::unique()
unique(h) == BaseUnique(Links, h)

\* operator==
OpEq(a, b) == get(a) = get(b)

\* operator!=
OpNe(a, b) == ~OpEq(a, b)

\* operator<: std::less<>() on the two addresses as void*
OpLt(a, b) == get(a) < get(b)

\* operator> written as the negation of operator< alone
OpGtNotLess(a, b) == ~OpLt(a, b)

\* operator>
OpGt(a, b) == ~OpLt(a, b) /\ ~OpEq(a, b)

\* operator<=
OpLe(a, b) == ~OpGt(a, b)

\* operator>=
OpGe(a, b) == ~OpLt(a, b)

\* `delete p`: deleting the null pointer does nothing
Delete(d, p) == IF p = Null THEN d ELSE [d EXCEPT ![p] = IF @ < 2 THEN @ + 1 ELSE @]

released(r) == deleted[r] > 0

\* ghost bookkeeping of the abstract ownership groups: a new or reset handle
\* starts a group of one, a copy joins the group of its source, and a swap
\* exchanges the groups of its two handles (a swap that returns early
\* because both hold the same reference leaves the groups alone)
GroupLeave(g, h) ==
    [x \in Handles |-> IF x = h THEN {h}
                       ELSE IF x \in g[h] THEN g[h] \ {h} ELSE g[x]]

GroupJoin(g, h, src) ==
    [x \in Handles |-> IF x = h \/ x \in g[src] THEN g[src] \cup {h} ELSE g[x]]

GroupSwap(g, a, b) ==
    IF b \in g[a] THEN g
    ELSE LET ga == (g[b] \ {b}) \cup {a}
             gb == (g[a] \ {a}) \cup {b}
         IN  [x \in Handles |-> IF x \in ga THEN ga
                                ELSE IF x \in gb THEN gb ELSE g[x]]

\* Storage for a new handle: any slot whose handle was destroyed, or the
\* next slot never used so far (fresh storage is numbered in the order it is
\* first used, so that handle names are not permuted needlessly).
FreeSlot(h) ==
    /\ h \notin live
    /\ h \in used \/ \A x \in Handles \ used : h <= x

\* The result of `new`: an address never returned before; fresh resources
\* are numbered in the order they are allocated.
FreshRes(p) ==
    /\ p \in Res \ handed
    /\ \A x \in Res \ handed : p <= x

Init ==
    /\ live = {}
    /\ used = {}
    /\ ptr = [h \in Handles |-> Null]
    /\ left = [h \in Handles |-> h]
    /\ right = [h \in Handles |-> h]
    /\ deleted = [r \in Res |-> 0]
    /\ handed = {}
    /\ group = [h \in Handles |-> {h}]
    /\ last = [op |-> "init", a |-> 0, b |-> 0, g |-> {}]
    /\ steps = 0

\* ghost: every operation is counted in `steps` and recorded in `last`
\* with its arguments and the ownership group its handle was in before
Op(name, a, b) ==
    /\ steps' = steps + 1
    /\ last' = [op |-> name, a |-> a, b |-> b, g |-> group[a]]

\* linked_ptr() / linked_ptr(nullptr_t): empty handle in a free slot
ConstructNull(h) ==
    /\ FreeSlot(h)
    /\ live' = live \cup {h}
    /\ used' = used \cup {h}
    /\ ptr' = [ptr EXCEPT ![h] = Null]
    /\ LET lk == BaseInit(Links, h)
       IN  left' = lk.l /\ right' = lk.r
    /\ group' = GroupLeave(group, h)
    /\ Op("null", h, 0)
    /\ UNCHANGED <<deleted, handed>>

\* linked_ptr(Y* ptr): raw construction; p is a freshly allocated resource
ConstructRaw(h, p) ==
    /\ FreeSlot(h)
    /\ FreshRes(p)
    /\ live' = live \cup {h}
    /\ used' = used \cup {h}
    /\ handed' = handed \cup {p}
    /\ ptr' = [ptr EXCEPT ![h] = p]
    /\ LET lk == BaseInit(Links, h)
       IN  left' = lk.l /\ right' = lk.r
    /\ group' = GroupLeave(group, h)
    /\ Op("raw", h, p)
    /\ UNCHANGED deleted

\* copy construction that links the node but leaves _ptr at its default
CopyConstructNoPtr(h, rhs) ==
    /\ FreeSlot(h)
    /\ rhs \in live
    /\ live' = live \cup {h}
    /\ used' = used \cup {h}
    /\ LET lk == InsertAfter(BaseInit(Links, h), h, rhs)
       IN  left' = lk.l /\ right' = lk.r
    /\ ptr' = [ptr EXCEPT ![h] = Null]
    /\ group' = GroupJoin(group, h, rhs)
    /\ Op("copy", h, rhs)
    /\ UNCHANGED <<deleted, handed>>

\* linked_ptr(const linked_ptr& rhs) and linked_ptr(const linked_ptr<Y>& rhs):
\* the static_cast of the covariant form does not change the address
CopyConstruct(h, rhs) ==
    /\ FreeSlot(h)
    /\ rhs \in live
    /\ live' = live \cup {h}
    /\ used' = used \cup {h}
    /\ LET lk == InsertAfter(BaseInit(Links, h), h, rhs)
       IN  left' = lk.l /\ right' = lk.r
    /\ ptr' = [ptr EXCEPT ![h] = get(rhs)]
    /\ group' = GroupJoin(group, h, rhs)
    /\ Op("copy", h, rhs)
    /\ UNCHANGED <<deleted, handed>>

\* reset that deletes the resource whether or not the handle is unique
ResetBodyAlwaysDeletes(h, p) ==
    /\ deleted' = Delete(deleted, ptr[h])
    /\ IF unique(h)
       THEN UNCHANGED <<left, right>>
       ELSE LET lk == Erase(Links, h)
            IN  left' = lk.l /\ right' = lk.r
    /\ ptr' = [ptr EXCEPT ![h] = p]
    /\ group' = GroupLeave(group, h)

\* shared body of reset() and reset(Y* ptr): the state after the handle
\* let go of its current resource and took p
ResetBody(h, p) ==
    /\ IF unique(h)
       THEN /\ deleted' = Delete(deleted, ptr[h])           \* delete _ptr
            /\ UNCHANGED <<left, right>>
       ELSE /\ LET lk == Erase(Links, h)                    \* base.erase()
               IN  left' = lk.l /\ right' = lk.r
            /\ UNCHANGED deleted
    /\ ptr' = [ptr EXCEPT ![h] = p]                         \* _ptr = ptr
    /\ group' = GroupLeave(group, h)

\* reset() that lets go of the resource but keeps the pointer to it
ResetKeepsPtr(h) ==
    /\ h \in live
    /\ ResetBody(h, ptr[h])
    /\ Op("reset", h, 0)
    /\ UNCHANGED <<live, used, handed>>

\* linked_ptr::reset()
Reset(h) ==
    /\ h \in live
    /\ ResetBody(h, Null)
    /\ Op("reset", h, 0)
    /\ UNCHANGED <<live, used, handed>>

\* linked_ptr::reset(Y* ptr) with a freshly allocated resource p
ResetTo(h, p) ==
    /\ h \in live
    /\ FreshRes(p)
    /\ handed' = handed \cup {p}
    /\ ResetBody(h, p)
    /\ Op("resetTo", h, p)
    /\ UNCHANGED <<live, used>>

\* linked_ptr::~linked_ptr()
Destroy(h) ==
    /\ h \in live
    /\ ResetBody(h, Null)
    /\ live' = live \ {h}
    /\ Op("destroy", h, 0)
    /\ UNCHANGED <<used, handed>>

\* The handle state that swap works on: st.p is _ptr of every handle, st.lk
\* the links of every node.
Cur == [p |-> ptr, lk |-> Links]

\* linked_ptr::swap(other) as a function of the handle state; a is `this`,
\* b is `other`
SwapOn(st, a, b, innerFirst) ==
    IF st.p[a] = st.p[b] THEN st                       \* if (_ptr == other._ptr) return
    ELSE [lk |-> BaseSwap(st.lk, a, b, innerFirst),    \* base.swap(other.base)
          p  |-> [st.p EXCEPT ![a] = st.p[b], ![b] = st.p[a]]]

\* swap without the early return for handles holding the same reference
SwapNoEarlyReturn(a, b, innerFirst) ==
    /\ a \in live /\ b \in live
    /\ LET lk == BaseSwap(Links, a, b, innerFirst)
       IN  left' = lk.l /\ right' = lk.r
    /\ ptr' = [ptr EXCEPT ![a] = ptr[b], ![b] = ptr[a]]
    /\ group' = IF ptr[a] = ptr[b] THEN group ELSE GroupSwap(group, a, b)
    /\ Op("swap", a, b)
    /\ UNCHANGED <<live, used, deleted, handed>>

\* linked_ptr::swap(other); a is `this`, b is `other`
Swap(a, b, innerFirst) ==
    /\ a \in live /\ b \in live
    /\ LET st == SwapOn(Cur, a, b, innerFirst)
       IN  ptr' = st.p /\ left' = st.lk.l /\ right' = st.lk.r
    /\ group' = IF ptr[a] = ptr[b] THEN group ELSE GroupSwap(group, a, b)
    /\ Op("swap", a, b)
    /\ UNCHANGED <<live, used, deleted, handed>>

\* h = rhs.  The operator= template of the class is not a copy assignment
\* operator, so for two handles of the same type overload resolution takes
\* the implicitly-defined copy assignment, which copies the members _ptr and
\* base (_left, _right) one by one.  (For a handle of another type the
\* template is instantiated and does not compile: it calls insert_after,
\* which is not a member of linked_ptr.)
Assign(h, rhs) ==
    /\ h \in live /\ rhs \in live
    /\ ptr' = [ptr EXCEPT ![h] = ptr[rhs]]
    /\ left' = [left EXCEPT ![h] = left[rhs]]
    /\ right' = [right EXCEPT ![h] = right[rhs]]
    /\ group' = IF rhs \in group[h] THEN group
                ELSE GroupJoin(GroupLeave(group, h), h, rhs)
    /\ Op("assign", h, rhs)
    /\ UNCHANGED <<live, used, deleted, handed>>

\* raw construction that looks up a handle already holding the address and
\* joins its ring
ConstructAliasJoins(h, p) ==
    /\ FreeSlot(h)
    /\ \E x \in live :
          /\ ptr[x] = p
          /\ LET lk == InsertAfter(BaseInit(Links, h), h, x)
             IN  left' = lk.l /\ right' = lk.r
          /\ group' = GroupJoin(group, h, x)
    /\ live' = live \cup {h}
    /\ used' = used \cup {h}
    /\ ptr' = [ptr EXCEPT ![h] = p]
    /\ Op("alias", h, p)
    /\ UNCHANGED <<deleted, handed>>

\* linked_ptr(Y* ptr) called with an address that a live handle already
\* holds (the caller hands the same raw pointer out a second time)
ConstructAlias(h, p) ==
    /\ FreeSlot(h)
    /\ \E x \in live : ptr[x] = p
    /\ p # Null
    /\ live' = live \cup {h}
    /\ used' = used \cup {h}
    /\ ptr' = [ptr EXCEPT ![h] = p]
    /\ LET lk == BaseInit(Links, h)
       IN  left' = lk.l /\ right' = lk.r
    /\ group' = GroupLeave(group, h)
    /\ Op("alias", h, p)
    /\ UNCHANGED <<deleted, handed>>

\* programs of at most MaxSteps operations on up to NumHandles handles
Next ==
    \/ \E h \in Handles : steps < MaxSteps /\ ConstructNull(h)
    \/ \E h \in Handles, p \in Res : steps < MaxSteps /\ ConstructRaw(h, p)
    \/ \E h, rhs \in Handles : steps < MaxSteps /\ CopyConstruct(h, rhs)
    \/ \E h \in Handles : steps < MaxSteps /\ Reset(h)
    \/ \E h \in Handles, p \in Res : steps < MaxSteps /\ ResetTo(h, p)
    \/ \E h \in Handles : steps < MaxSteps /\ Destroy(h)
    \/ \E a, b \in Handles, o \in BOOLEAN : steps < MaxSteps /\ Swap(a, b, o)

Spec == Init /\ [][Next]_vars

\* programs that also assign handles to each other
NextAssign ==
    \/ Next
    \/ \E h, rhs \in Handles : steps < MaxSteps /\ Assign(h, rhs)

SpecAssign == Init /\ [][NextAssign]_vars

\* swap-free programs: rings are built by copy construction only
NextRing ==
    \/ \E h \in Handles : steps < RingSteps /\ ConstructNull(h)
    \/ \E h \in Handles, p \in Res : steps < RingSteps /\ ConstructRaw(h, p)
    \/ \E h, rhs \in Handles : steps < RingSteps /\ CopyConstruct(h, rhs)
    \/ \E h \in Handles : steps < RingSteps /\ Reset(h)
    \/ \E h \in Handles, p \in Res : steps < RingSteps /\ ResetTo(h, p)
    \/ \E h \in Handles : steps < RingSteps /\ Destroy(h)

SpecRing == Init /\ [][NextRing]_vars

\* short programs, whose handles are then compared with each other
NextCmp ==
    \/ \E h \in Handles : steps < CmpSteps /\ ConstructNull(h)
    \/ \E h \in Handles, p \in Res : steps < CmpSteps /\ ConstructRaw(h, p)
    \/ \E h, rhs \in Handles : steps < CmpSteps /\ CopyConstruct(h, rhs)
    \/ \E h \in Handles : steps < CmpSteps /\ Reset(h)
    \/ \E h \in Handles, p \in Res : steps < CmpSteps /\ ResetTo(h, p)
    \/ \E h \in Handles : steps < CmpSteps /\ Destroy(h)
    \/ \E a, b \in Handles, o \in BOOLEAN : steps < CmpSteps /\ Swap(a, b, o)

SpecCmp == Init /\ [][NextCmp]_vars

\* short programs that also hand an address to a second raw construction
NextAlias ==
    \/ NextCmp
    \/ \E h \in Handles, p \in Res : steps < CmpSteps /\ ConstructAlias(h, p)

SpecAlias == Init /\ [][NextAlias]_vars

\* ---- programs that use linked_ptr_base nodes directly, without a handle
\* linked_ptr_base(): a node in a free slot
NodeNew(n) ==
    /\ FreeSlot(n)
    /\ live' = live \cup {n}
    /\ used' = used \cup {n}
    /\ LET lk == BaseInit(Links, n)
       IN  left' = lk.l /\ right' = lk.r
    /\ Op("node", n, 0)
    /\ UNCHANGED <<ptr, deleted, handed, group>>

\* n.insert_after(rhs); assert(unique()) is the guard
NodeInsertAfter(n, rhs) ==
    /\ n \in live /\ rhs \in live
    /\ BaseUnique(Links, n)
    /\ LET lk == InsertAfter(Links, n, rhs)
       IN  left' = lk.l /\ right' = lk.r
    /\ Op("insert_after", n, rhs)
    /\ UNCHANGED <<live, used, ptr, deleted, handed, group>>

\* n.erase()
NodeErase(n) ==
    /\ n \in live
    /\ LET lk == Erase(Links, n)
       IN  left' = lk.l /\ right' = lk.r
    /\ Op("erase", n, 0)
    /\ UNCHANGED <<live, used, ptr, deleted, handed, group>>

\* a.swap(b) on nodes
NodeSwap(a, b, innerFirst) ==
    /\ a \in live /\ b \in live
    /\ LET lk == BaseSwap(Links, a, b, innerFirst)
       IN  left' = lk.l /\ right' = lk.r
    /\ Op("node_swap", a, b)
    /\ UNCHANGED <<live, used, ptr, deleted, handed, group>>

NextBase ==
    \/ \E n \in Handles : steps < BaseSteps /\ NodeNew(n)
    \/ \E n, rhs \in Handles : steps < BaseSteps /\ NodeInsertAfter(n, rhs)
    \/ \E n \in Handles : steps < BaseSteps /\ NodeErase(n)
    \/ \E a, b \in Handles, o \in BOOLEAN : steps < BaseSteps /\ NodeSwap(a, b, o)

SpecBase == Init /\ [][NextBase]_vars

\* longer programs of at most DeepSteps operations on fewer handles
DeepHandles == 1..NumDeepHandles

NextDeep ==
    \/ \E h \in DeepHandles : steps < DeepSteps /\ ConstructNull(h)
    \/ \E h \in DeepHandles, p \in Res : steps < DeepSteps /\ ConstructRaw(h, p)
    \/ \E h, rhs \in DeepHandles : steps < DeepSteps /\ CopyConstruct(h, rhs)
    \/ \E h \in DeepHandles : steps < DeepSteps /\ Reset(h)
    \/ \E h \in DeepHandles, p \in Res : steps < DeepSteps /\ ResetTo(h, p)
    \/ \E h \in DeepHandles : steps < DeepSteps /\ Destroy(h)
    \/ \E a, b \in DeepHandles, o \in BOOLEAN : steps < DeepSteps /\ Swap(a, b, o)

SpecDeep == Init /\ [][NextDeep]_vars

\* C1: no live handle's get() returns a resource that has been released
NoPrematureRelease ==
    \A h \in live : ptr[h] # Null => ~released(ptr[h])

\* C2: every resource is released at most once
NoDoubleRelease ==
    \A r \in Res : deleted[r] <= 1

\* C3: a resource that was handed to a handle and that no live handle
\* references any more has been released
NoLeak ==
    \A r \in handed : (\A h \in live : ptr[h] # r) => released(r)

\* C4: unique() holds exactly for the sole members of an ownership group
UniqueIffSoleMember ==
    \A h \in live : unique(h) <=> group[h] = {h}

\* C10: the handles owning a live handle's neighbour nodes hold the same
\* resource reference
RingSharesResource ==
    \A h \in live : ptr[left[h]] = ptr[h] /\ ptr[right[h]] = ptr[h]

\* ------------------------------------------------- vocabulary of the claims
LinksNext == [l |-> left', r |-> right']

\* the nodes reached from node h by following _right
RECURSIVE Reach(_, _, _)
Reach(lk, S, n) ==
    IF n = 0 THEN S ELSE Reach(lk, S \cup {lk.r[x] : x \in S}, n - 1)

RingOf(lk, h) == Reach(lk, {h}, NumHandles)

\* h lies on a proper ring: _left and _right are inverse to each other on
\* every node that is reached from h
ProperRing(lk, h) ==
    \A n \in RingOf(lk, h) : lk.l[lk.r[n]] = n /\ lk.r[lk.l[n]] = n

\* the handle name x after handles a and b exchanged places
Exch(a, b, x) == IF x = a THEN b ELSE IF x = b THEN a ELSE x

\* C5: a.swap(b) on handles of two disjoint rings (of any size, one
\* included) holding different resources exchanges exactly the ring
\* positions and resource references of a and b; every other member keeps
\* its resource reference and its neighbours
SwapExchangesPositions ==
    [][ \A a, b \in Handles :
          ( /\ last'.op = "swap" /\ last'.a = a /\ last'.b = b
            /\ ptr[a] # ptr[b]
            /\ ProperRing(Links, a) /\ ProperRing(Links, b)
            /\ RingOf(Links, a) \cap RingOf(Links, b) = {}
            /\ RingOf(Links, a) \cup RingOf(Links, b) \subseteq live )
          => \A x \in Handles :
                /\ ptr'[Exch(a, b, x)] = ptr[x]
                /\ left'[Exch(a, b, x)] = Exch(a, b, left[x])
                /\ right'[Exch(a, b, x)] = Exch(a, b, right[x])
      ]_vars

\* C6: right after copy-constructing h2 from h1, both have the same get()
\* and neither is unique()
CopySharesWithSource ==
    last.op = "copy" =>
        /\ get(last.a) = get(last.b)
        /\ ~unique(last.a)
        /\ ~unique(last.b)

\* C6 witness: a copy was made of a handle that was a sole owner of a resource
CopyOfSoleOwnerMade ==
    /\ last.op = "copy"
    /\ ptr[last.b] # Null
    /\ group[last.b] = {last.a, last.b}

\* C7: in a ring built by copy construction, a reset or destruction of one
\* member leaves every other member's get() unchanged and its resource
\* unreleased, and a member left alone is unique()
LastOwnerKeepsResource ==
    [][ \A x \in Handles :
          ( /\ last'.op \in {"reset", "resetTo", "destroy"}
            /\ x # last'.a
            /\ x \in group[last'.a] )
          => /\ ptr'[x] = ptr[x]
             /\ ptr[x] # Null => ~released(ptr[x])'
             /\ group'[x] = {x} => unique(x)'
      ]_vars

\* C7 witness: two of the three members of a ring are gone, the third is
\* unique and still holds the unreleased resource
TwoOfThreeOwnersGone ==
    /\ last.op \in {"reset", "destroy"}
    /\ Cardinality(last.g) = 2
    /\ steps = 5
    /\ handed = {1}
    /\ \E x \in last.g \ {last.a} :
          /\ x \in live /\ unique(x)
          /\ ptr[x] = 1 /\ ~released(1)
          /\ \A y \in Handles \ {x} : y \in used /\ ptr[y] = Null

\* C8: reset(new_ref) on a handle h of a proper ring of two or more handles
\* makes h a singleton holding new_ref, releases nothing, and leaves the
\* other members with their resource reference on a proper ring without h,
\* in the same cyclic order
ResetToDetaches ==
    [][ \A h \in Handles :
          ( /\ last'.op = "resetTo" /\ last'.a = h
            /\ ~unique(h)
            /\ ProperRing(Links, h) )
          => /\ unique(h)'
             /\ ptr'[h] = last'.b
             /\ deleted' = deleted
             /\ \A x \in Handles \ {h} : ptr'[x] = ptr[x]
             /\ \A x \in RingOf(Links, h) \ {h} :
                   /\ RingOf(LinksNext, x) = RingOf(Links, h) \ {h}
                   /\ ProperRing(LinksNext, x)
                   /\ right'[x] = IF right[x] = h THEN right[h] ELSE right[x]
                   /\ left'[x] = IF left[x] = h THEN left[h] ELSE left[x]
             /\ \A x \in Handles \ RingOf(Links, h) :
                   left'[x] = left[x] /\ right'[x] = right[x]
      ]_vars

\* C8 witness: a handle of a ring of two was reset to a new resource; its
\* former partner is now unique and holds the old, unreleased resource
SharedHandleResetTo ==
    /\ last.op = "resetTo"
    /\ steps = 3
    /\ Cardinality(last.g) = 2
    /\ unique(last.a) /\ ptr[last.a] = 2
    /\ \E x \in last.g \ {last.a} : unique(x) /\ ptr[x] = 1 /\ ~released(1)

\* C9: h = r between handles of different proper rings releases h's resource
\* exactly when h was its sole owner, and otherwise leaves h's former ring
\* without h; it makes h a member of r's ring with the same get() as r, so
\* that neither is unique() and r's ring is a proper ring
AssignJoinsRing ==
    [][ \A h, r \in Handles :
          ( /\ last'.op = "assign" /\ last'.a = h /\ last'.b = r
            /\ ProperRing(Links, h) /\ ProperRing(Links, r)
            /\ RingOf(Links, h) \cap RingOf(Links, r) = {} )
          => /\ deleted' = IF unique(h) THEN Delete(deleted, ptr[h]) ELSE deleted
             /\ \A x \in RingOf(Links, h) \ {h} :
                   RingOf(LinksNext, x) = RingOf(Links, h) \ {h}
             /\ ptr'[h] = ptr'[r]
             /\ ~unique(h)' /\ ~unique(r)'
             /\ RingOf(LinksNext, r) = RingOf(Links, r) \cup {h}
             /\ ProperRing(LinksNext, r)
      ]_vars

\* C11: a raw construction yields a singleton handle holding the given
\* reference and changes no existing handle's links or resource reference
\* (hence no unique() value), also when a live handle holds the same address
RawConstructIsolated ==
    [][ \A h \in Handles :
          (last'.op \in {"raw", "alias"} /\ last'.a = h)
          => /\ unique(h)'
             /\ ptr'[h] = last'.b
             /\ \A x \in live :
                   /\ ptr'[x] = ptr[x]
                   /\ left'[x] = left[x] /\ right'[x] = right[x]
                   /\ unique(x)' = unique(x)
      ]_vars

\* C11 witness: a handle was constructed from an address that another live
\* handle holds, and both are singletons
AliasConstructed ==
    /\ last.op = "alias"
    /\ unique(last.a)
    /\ \E x \in live \ {last.a} : ptr[x] = ptr[last.a] /\ unique(x)

\* C12: a.swap(b) with a.get() = b.get() changes no link and no resource
\* reference of any handle and releases nothing
SwapSameReferenceNoOp ==
    [][ (last'.op = "swap" /\ ptr[last'.a] = ptr[last'.b])
        => /\ left' = left /\ right' = right
           /\ ptr' = ptr
           /\ deleted' = deleted
      ]_vars

\* C12 witness: two different handles holding the same reference were
\* swapped: two members of one ring of a resource, or two empty handles of
\* different rings
SameReferenceSwapped ==
    /\ last.op = "swap"
    /\ last.a # last.b
    /\ ptr[last.a] = ptr[last.b]
    /\ ~unique(last.a) /\ ~unique(last.b)
    /\ \/ ptr[last.a] # Null /\ last.b \in group[last.a]
       \/ ptr[last.a] = Null /\ last.b \notin RingOf(Links, last.a)

\* C13: on live handles operator< is irreflexive, asymmetric and
\* transitive, operator== holds exactly for identical addresses, exactly one
\* of a<b, a==b, a>b holds, a<=b is (a<b or a==b), a>=b is (a>b or a==b),
\* and a handle can be replaced by any handle holding the same address
\* without changing a comparison, whatever their rings
ComparisonsOrderAddresses ==
    \A a, b \in live :
        /\ ~OpLt(a, a)
        /\ OpLt(a, b) => ~OpLt(b, a)
        /\ OpEq(a, b) <=> ptr[a] = ptr[b]
        /\ OpNe(a, b) <=> ptr[a] # ptr[b]
        /\ \/ OpLt(a, b) /\ ~OpEq(a, b) /\ ~OpGt(a, b)
           \/ ~OpLt(a, b) /\ OpEq(a, b) /\ ~OpGt(a, b)
           \/ ~OpLt(a, b) /\ ~OpEq(a, b) /\ OpGt(a, b)
        /\ OpGt(a, b) <=> OpLt(b, a)
        /\ OpLe(a, b) <=> (OpLt(a, b) \/ OpEq(a, b))
        /\ OpGe(a, b) <=> (OpGt(a, b) \/ OpEq(a, b))
        /\ \A c \in live :
              /\ OpLt(a, b) /\ OpLt(b, c) => OpLt(a, c)
              /\ OpEq(a, c) => /\ OpLt(a, b) = OpLt(c, b)
                               /\ OpLt(b, a) = OpLt(b, c)
                               /\ OpEq(a, b) = OpEq(c, b)

\* C13 witness: live handles hold three different addresses, and two
\* different handles hold the same resource
ThreeAddressesCompared ==
    /\ \E a, b, c \in live : OpLt(a, b) /\ OpLt(b, c)
    /\ \E a, b \in live : a # b /\ OpEq(a, b) /\ ptr[a] # Null

\* C14: every live ring node n has n.right.left = n and n.left.right = n
LinkConsistency ==
    \A n \in live : left[right[n]] = n /\ right[left[n]] = n

\* C15: a.swap(b) on nodes, exactly one of them singleton and the other on
\* a proper ring of two or more nodes: afterwards the formerly shared node
\* is singleton and the formerly singleton node has the other's former
\* neighbours, which both point at it
OneSidedSwapMovesNode ==
    [][ \A a, b \in Handles :
          ( /\ last'.op = "node_swap"
            /\ {last'.a, last'.b} = {a, b}
            /\ BaseUnique(Links, a) /\ ~BaseUnique(Links, b)
            /\ ProperRing(Links, b) )
          => /\ BaseUnique(LinksNext, b)
             /\ left'[a] = left[b] /\ right'[a] = right[b]
             /\ right'[left[b]] = a /\ left'[right[b]] = a
      ]_vars

\* C16: n.erase() on a node of a proper ring of k >= 2 nodes leaves the other
\* k-1 nodes on a proper ring in the same cyclic order, n's former
\* neighbours pointing at each other, and n singleton; on a singleton node it
\* changes nothing; nodes outside the ring keep their links
EraseUnlinksNode ==
    [][ \A n \in Handles :
          (last'.op = "erase" /\ last'.a = n /\ ProperRing(Links, n))
          => LET R == RingOf(Links, n) \ {n}
             IN  /\ BaseUnique(LinksNext, n)
                 /\ BaseUnique(Links, n) => (left' = left /\ right' = right)
                 /\ \A x \in R :
                       /\ right'[x] = IF right[x] = n THEN right[n] ELSE right[x]
                       /\ left'[x] = IF left[x] = n THEN left[n] ELSE left[x]
                       /\ RingOf(LinksNext, x) = R
                       /\ ProperRing(LinksNext, x)
                 /\ R # {} => (right'[left[n]] = right[n] /\ left'[right[n]] = left[n])
                 /\ \A x \in Handles \ (R \cup {n}) :
                       left'[x] = left[x] /\ right'[x] = right[x]
      ]_vars

\* C16 witness: a node was erased from a ring of three, the two others now
\* form a ring of two
ErasedFromRingOfThree ==
    /\ last.op = "erase"
    /\ steps = 6
    /\ unique(last.a)
    /\ \E x, y \in live \ {last.a} :
          /\ x # y
          /\ right[x] = y /\ right[y] = x /\ left[x] = y /\ left[y] = x
    /\ Cardinality(live) = 3

\* C17: n.insert_after(t) on a singleton node n and another node t of a
\* proper ring: afterwards t.right is n, n.right is t's former right
\* neighbour, n.left is t, the ring is the old ring plus n and is proper,
\* and every prior member other than t keeps its right neighbour
InsertAfterSplices ==
    [][ \A n, t \in Handles :
          ( /\ last'.op = "insert_after" /\ last'.a = n /\ last'.b = t
            /\ n # t
            /\ ProperRing(Links, t) )
          => /\ right'[t] = n
             /\ right'[n] = right[t]
             /\ left'[n] = t
             /\ left'[right[t]] = n
             /\ RingOf(LinksNext, t) = RingOf(Links, t) \cup {n}
             /\ Cardinality(RingOf(LinksNext, t)) = Cardinality(RingOf(Links, t)) + 1
             /\ ProperRing(LinksNext, t)
             /\ \A x \in RingOf(Links, t) \ {t} : right'[x] = right[x]
             /\ \A x \in RingOf(Links, t) \ {right[t]} : left'[x] = left[x]
             /\ \A x \in Handles \ (RingOf(Links, t) \cup {n}) :
                   left'[x] = left[x] /\ right'[x] = right[x]
      ]_vars

\* C17 witness: a node was inserted after a node of a ring of two, between
\* that node and its former right neighbour
InsertedIntoRingOfTwo ==
    /\ last.op = "insert_after"
    /\ steps = 5
    /\ Cardinality(RingOf(Links, last.b)) = 3
    /\ ProperRing(Links, last.b)
    /\ right[last.b] = last.a
    /\ right[last.a] \notin {last.a, last.b}

\* C18: h = r with r = h, or with r on h's own proper ring, releases nothing
\* and leaves every handle's links and resource reference as they were
SameRingAssignNoOp ==
    [][ \A h, r \in Handles :
          ( /\ last'.op = "assign" /\ last'.a = h /\ last'.b = r
            /\ ProperRing(Links, h)
            /\ r \in RingOf(Links, h) )
          => /\ left' = left /\ right' = right
             /\ ptr' = ptr
             /\ deleted' = deleted
      ]_vars

\* C19: reset() leaves the handle empty and unique(); a reset() or
\* destruction of a handle that is empty and unique() releases nothing and
\* changes no link and no resource reference
ResetLeavesEmptySingleton ==
    [][ \A h \in Handles :
          /\ (last'.op = "reset" /\ last'.a = h)
             => (ptr'[h] = Null /\ unique(h)')
          /\ ( /\ last'.op \in {"reset", "destroy"} /\ last'.a = h
               /\ ptr[h] = Null /\ unique(h) )
             => /\ deleted' = deleted
                /\ ptr' = ptr
                /\ left' = left /\ right' = right
      ]_vars

\* C19 witness: a handle that shared a resource was reset and then reset or
\* destroyed once more, and its former partner still holds the resource
ResetTwice ==
    /\ last.op \in {"reset", "destroy"}
    /\ steps = 4
    /\ last.g = {last.a}
    /\ ptr[last.a] = Null /\ unique(last.a)
    /\ deleted = [r \in Res |-> 0]
    /\ \E x \in live \ {last.a} : ptr[x] = 1 /\ unique(x)
    /\ Cardinality(used) = 2

\* C20: from any reachable state, a.swap(b) performed twice in a row on two
\* live handles restores every handle's links and resource reference
SwapTwiceRestores ==
    \A a, b \in live : \A o1, o2 \in BOOLEAN :
        SwapOn(SwapOn(Cur, a, b, o1), a, b, o2) = Cur

====
